---- MODULE Spec2Model ----
(***************************************************************************)
(* A model of the S3FIFO cache of src/src/lib.rs.                          *)
(*                                                                         *)
(* The two key queues are modelled as the ring buffers they are: a buffer  *)
(* of physical slots, a head index and a length.  A slot keeps the bits    *)
(* that were last written to it after pop_front has moved the element out, *)
(* which is what a read through a Bucket's raw key_ptr observes.  The      *)
(* buffers have exactly the requested capacity (VecDeque::with_capacity of *)
(* std 1.67 and later, the toolchains hashbrown's HashTable builds with).  *)
(*                                                                         *)
(* The hash table is a bag of buckets.  Each bucket carries the hash it    *)
(* was inserted under (its position in the table); find(hash, eq) yields   *)
(* the buckets stored under that hash whose key_ptr, dereferenced, equals  *)
(* the probed key.  When several buckets match, which one the table meets  *)
(* first depends on its layout, so every operation is a set of outcomes.   *)
(* The table is built with room for 10 * cap entries and never holds more  *)
(* than cap, so it never rehashes and rehashing is not modelled.           *)
(*                                                                         *)
(* A failed assert!, an unreachable!() or a reallocation of a queue ends   *)
(* the run: status names the place and no operation follows.               *)
(*                                                                         *)
(* log is a history variable: what the evictors did during the last        *)
(* operation (each run's begin and end, each head pop and what became of   *)
(* the entry, each call of GhostFIFOCache::insert).  No operation reads it. *)
(***************************************************************************)
EXTENDS Integers, Sequences, FiniteSets, Bags, TLC

VARIABLES cap, small_fifo, main_fifo, ghost_fifo, table, status,
          lastOp, ret, script, pos, extra, log

vars == <<cap, small_fifo, main_fifo, ghost_fifo, table, status,
          lastOp, ret, script, pos, extra, log>>

(* ------------------------------ bounds -------------------------------- *)

\* keys 1..FreeKeys (and one colliding key) are used by the free caller
FreeKeys == 1
\* the hasher maps keys onto 1..HashMod; key HashMod + 1 collides with key 1
HashMod == 11
\* reads a scripted caller may add to its script
ExtraReads == 2

\* values a caller stores
Values == {1, 2}
\* capacities the free caller constructs the cache with
Caps == {0, 5, 10, 20}
FreeKeySet == (1..FreeKeys) \cup {HashMod + 1}

(* ------------------------------ hasher -------------------------------- *)

\* hash_builder.hash_one: pure, equal keys have equal hashes, not injective
Hash(k) == ((k - 1) % HashMod) + 1

(* ------------------------- VecDeque<(K, HashValue)> -------------------- *)

NoElem == <<0, 0>>

with_capacity(n) ==
    [buf |-> [i \in 0..(n - 1) |-> NoElem], head |-> 0, len |-> 0, cap |-> n]

\* a fullness test that is off by one
is_full_off_by_one(q) == q.len > q.cap

is_full(q) == q.len = q.cap

\* logical contents, head first
Elems(q) == [i \in 1..q.len |-> q.buf[(q.head + i - 1) % q.cap]]

front(q) == q.buf[q.head]

pop_front(q) == [q EXCEPT !.head = (q.head + 1) % q.cap, !.len = q.len - 1]

\* physical slot the next push_back writes
back_slot(q) == (q.head + q.len) % q.cap

GrownCap(n) == IF n = 0 THEN 4 ELSE 2 * n

push_back(q, e) ==
    IF q.len < q.cap
    THEN [q EXCEPT !.buf[back_slot(q)] = e, !.len = q.len + 1]
    ELSE \* a full deque grows: a new buffer, every old slot is freed
         [buf  |-> [i \in 0..(GrownCap(q.cap) - 1) |->
                      IF i < q.len THEN q.buf[(q.head + i) % q.cap]
                      ELSE IF i = q.len THEN e ELSE NoElem],
          head |-> 0, len |-> q.len + 1, cap |-> GrownCap(q.cap)]

(* ----------------------------- GhostFIFOCache -------------------------- *)

GhostFIFOCache_new(n) == [table |-> {}, ring_buffer |-> <<>>, cap |-> n]

\* a Ghost that remembers nothing
ghost_contains_nothing(g, hash) == FALSE

ghost_contains(g, hash) == hash \in g.table

\* an insert that does not look for the hash first
ghost_insert_again(g, hash) ==
    LET full == Len(g.ring_buffer) = g.cap
        garbage_hash == Head(g.ring_buffer)
        ring == IF full THEN Tail(g.ring_buffer) ELSE g.ring_buffer
        tbl  == IF full THEN g.table \ {garbage_hash} ELSE g.table
    IN  [g EXCEPT !.ring_buffer = Append(ring, hash),
                  !.table = tbl \cup {hash}]

\* an insert that stores nothing
ghost_insert_nothing(g, hash) == g

\* an insert that never evicts the oldest fingerprint
ghost_insert_no_evict(g, hash) ==
    IF ghost_contains(g, hash) THEN g
    ELSE [g EXCEPT !.ring_buffer = Append(@, hash), !.table = @ \cup {hash}]

ghost_insert(g, hash) ==
    IF ghost_contains(g, hash) THEN g
    ELSE LET full == Len(g.ring_buffer) = g.cap
             garbage_hash == Head(g.ring_buffer)
             ring == IF full THEN Tail(g.ring_buffer) ELSE g.ring_buffer
             tbl  == IF full THEN g.table \ {garbage_hash} ELSE g.table
         IN  [g EXCEPT !.ring_buffer = Append(ring, hash),
                       !.table = tbl \cup {hash}]

(* -------------------------------- Bucket ------------------------------- *)

\* hash is the hash the bucket was inserted under (its place in the table)
Bucket(key_ptr, value, freq, hash) ==
    [key_ptr |-> key_ptr, value |-> value, freq |-> freq, hash |-> hash]

\* a hit that counts without a ceiling
incr_freq_unbounded(freq) == freq + 1

incr_freq(freq) == (freq + 1) % 4

\* an evictor pass that leaves the counter alone
saturating_sub_none(freq) == freq

\* an evictor pass that takes two off the counter
saturating_sub_two(freq) == IF freq > 1 THEN freq - 2 ELSE 0

saturating_sub(freq) == IF freq > 0 THEN freq - 1 ELSE 0

(* -------------------------------- S3FIFO ------------------------------- *)

\* a constructor that gives Main the whole capacity
with_hasher_main_whole(n) ==
    [small_fifo |-> with_capacity(n \div 10),
     main_fifo  |-> with_capacity(n),
     ghost_fifo |-> GhostFIFOCache_new(n),
     table      |-> EmptyBag,
     status     |-> "ok",
     log        |-> <<>>]

\* a constructor that sizes Ghost by the whole capacity
with_hasher_ghost_cap(n) ==
    [small_fifo |-> with_capacity(n \div 10),
     main_fifo  |-> with_capacity((n * 9) \div 10),
     ghost_fifo |-> GhostFIFOCache_new(n),
     table      |-> EmptyBag,
     status     |-> "ok",
     log        |-> <<>>]

with_hasher(n) ==
    [small_fifo |-> with_capacity(n \div 10),
     main_fifo  |-> with_capacity((n * 9) \div 10),
     ghost_fifo |-> GhostFIFOCache_new((n * 9) \div 10),
     table      |-> EmptyBag,
     status     |-> "ok",
     log        |-> <<>>]

\* the key read through a bucket's raw pointer: whatever the slot holds now
deref(c, key_ptr) ==
    IF key_ptr[1] = "small" THEN c.small_fifo.buf[key_ptr[2]][1]
                            ELSE c.main_fifo.buf[key_ptr[2]][1]

find(c, hash, k) ==
    {b \in BagToSet(c.table) : b.hash = hash /\ deref(c, b.key_ptr) = k}

insert_unique(c, b) == [c EXCEPT !.table = @ (+) SetToBag({b})]

\* an eviction that leaves the bucket in the table
remove_forgotten(c, b) == c

remove(c, b) == [c EXCEPT !.table = @ (-) SetToBag({b})]

\* a write through the &mut Bucket that find_mut or find_entry hands out
set_bucket(c, b, nb) ==
    [c EXCEPT !.table = (@ (-) SetToBag({b})) (+) SetToBag({nb})]

Fail(c, where) == [c EXCEPT !.status = where]

\* history: an event of the running operation
Ev(name, k, f, out) == [ev |-> name, k |-> k, f |-> f, out |-> out, q |-> <<>>]
Log(c, e) == [c EXCEPT !.log = Append(@, e)]
\* a queue's keys, head first, each with the counter the Index holds for it
Counters(c, q) ==
    [i \in 1..q.len |->
        <<Elems(q)[i][1],
          {b.freq : b \in find(c, Elems(q)[i][2], Elems(q)[i][1])}>>]
\* history: an evictor begins or ends; the event keeps the queue as it is
Run(c, name, out) ==
    LET q == IF name = "evict_main" THEN c.main_fifo ELSE c.small_fifo
    IN  Log(c, [ev |-> name, k |-> 0, f |-> q.len, out |-> out,
                q |-> Counters(c, q)])

\* run F on every outcome that is still running
Bind(S, F(_)) == UNION {IF s.status = "ok" THEN F(s) ELSE {s} : s \in S}

assert_main_fifo(c) ==
    IF \A i \in 1..c.main_fifo.len :
          find(c, Elems(c.main_fifo)[i][2], Elems(c.main_fifo)[i][1]) # {}
    THEN c ELSE Fail(c, "assert_main_fifo")

main_push_back(c, e) ==
    LET q == push_back(c.main_fifo, e)
    IN  [c EXCEPT !.main_fifo = q,
                  !.status = IF q.cap = c.main_fifo.cap THEN @ ELSE "realloc"]

small_push_back(c, e) ==
    LET q == push_back(c.small_fifo, e)
    IN  [c EXCEPT !.small_fifo = q,
                  !.status = IF q.cap = c.small_fifo.cap THEN @ ELSE "realloc"]

\* an eviction from Main that remembers the hash in Ghost
drop_main_to_ghost(c, b) ==
    [c EXCEPT !.table = @ (-) SetToBag({b}),
              !.ghost_fifo = ghost_insert(@, b.hash)]

\* entry.remove() of evict_main
drop_main(c, b) == remove(c, b)

\* the while-let loop of evict_main, one head pop per round
RECURSIVE evict_main_loop(_)
evict_main_loop(c) ==
    IF c.main_fifo.len = 0
    THEN {Run(c, "evict_main", "end")}
    ELSE LET e == front(c.main_fifo)
             c1 == [c EXCEPT !.main_fifo = pop_front(@)]
             found == find(c1, e[2], e[1])
         IN  IF found = {} THEN {Fail(c1, "unreachable_main")}
             ELSE UNION {
                    LET freq == saturating_sub(b.freq)
                    IN  IF freq > 0
                        THEN Bind({main_push_back(
                                     set_bucket(Log(c1, Ev("main", e[1], b.freq, "recycle")),
                                                b, [b EXCEPT !.freq = freq]), e)},
                                  evict_main_loop)
                        ELSE {Run(Log(drop_main(c1, b),
                                      Ev("main", e[1], b.freq, "drop")),
                                  "evict_main", "end")}
                    : b \in found}

evict_main(c) ==
    evict_main_loop(Run(c, "evict_main", "begin"))

\* the while-let loop of evict_small, one head pop per round
RECURSIVE evict_small_loop(_)
evict_small_loop(c) ==
    IF c.small_fifo.len = 0
    THEN {Run(c, "evict_small", "end")}
    ELSE LET e == front(c.small_fifo)
             c1 == [c EXCEPT !.small_fifo = pop_front(@)]
             found == find(c1, e[2], e[1])
         IN  IF found = {} THEN {Fail(c1, "unreachable_small")}
             ELSE UNION {
                    LET freq == saturating_sub(b.freq)
                        c2 == set_bucket(Log(c1, Ev("small", e[1], b.freq, "promote")),
                                         b, [b EXCEPT !.freq = freq])
                        made_room ==
                            IF is_full(c2.main_fifo)
                            THEN Bind(evict_main(c2),
                                      LAMBDA s : {assert_main_fifo(s)})
                            ELSE {c2}
                    IN  IF freq > 0
                        THEN Bind(Bind(made_room,
                                       LAMBDA s : {main_push_back(s, e)}),
                                  evict_small_loop)
                        ELSE Bind({assert_main_fifo(
                                     Log(remove(c1, b), Ev("small", e[1], b.freq, "drop")))},
                                  LAMBDA s :
                                    {Run(Log([s EXCEPT !.ghost_fifo = ghost_insert(@, e[2])],
                                             Ev("ghost_insert", e[2], 0, "call")),
                                         "evict_small", "end")})
                    : b \in found}

evict_small(c) ==
    evict_small_loop(Run(c, "evict_small", "begin"))

(* return values *)
None == <<"None">>
Some(v) == <<"Some", v>>
NoReturn == <<"NoReturn">>

\* a get that moves the head of each queue to its tail on a hit
get_reorders(c, k) ==
    LET found == find(c, Hash(k), k)
        turn(q) == IF q.len > 0 THEN push_back(pop_front(q), front(q)) ELSE q
    IN  IF found = {} THEN {[c |-> c, ret |-> None]}
        ELSE {[c   |-> [set_bucket(c, b, [b EXCEPT !.freq = incr_freq(b.freq)])
                           EXCEPT !.small_fifo = turn(@), !.main_fifo = turn(@)],
               ret |-> Some(b.value)] : b \in found}

\* get and get_mut: the set of (cache, returned value) outcomes
get(c, k) ==
    LET found == find(c, Hash(k), k)
    IN  IF found = {} THEN {[c |-> c, ret |-> None]}
        ELSE {[c   |-> set_bucket(c, b, [b EXCEPT !.freq = incr_freq(b.freq)]),
               ret |-> Some(b.value)] : b \in found}

get_mut(c, k) == get(c, k)

\* a replace that hands the old value back without storing the new one
replace_keeps_old(c, b, v) ==
    [c   |-> set_bucket(c, b, [b EXCEPT !.freq = incr_freq(b.freq)]),
     ret |-> Some(b.value)]

\* a replace that returns the value it has just stored
replace_returns_new(c, b, v) ==
    [c   |-> set_bucket(c, b, [b EXCEPT !.freq = incr_freq(b.freq), !.value = v]),
     ret |-> Some(v)]

\* a replace that looks the key up without counting a hit
replace_without_hit(c, b, v) ==
    [c   |-> set_bucket(c, b, [b EXCEPT !.value = v]),
     ret |-> Some(b.value)]

\* put on a key get_mut finds: get_mut counts the hit, mem::replace swaps the
\* value in and the old one out
replace(c, b, v) ==
    [c   |-> set_bucket(c, b, [b EXCEPT !.freq = incr_freq(b.freq), !.value = v]),
     ret |-> Some(b.value)]

put_main(c, k, v, hash) ==
    LET made_room ==
            IF is_full(c.main_fifo)
            THEN Bind(Bind({assert_main_fifo(c)}, evict_main),
                      LAMBDA s : {assert_main_fifo(s)})
            ELSE {c}
    IN  Bind(made_room,
             LAMBDA s : LET key_ptr == <<"main", back_slot(s.main_fifo)>>
                        IN  Bind({main_push_back(s, <<k, hash>>)},
                                 LAMBDA t : {insert_unique(t,
                                               Bucket(key_ptr, v, 0, hash))}))

put_small(c, k, v, hash) ==
    LET made_room ==
            IF is_full(c.small_fifo)
            THEN Bind(Bind({assert_main_fifo(c)}, evict_small),
                      LAMBDA s : {assert_main_fifo(s)})
            ELSE {c}
        not_full(s) ==
            IF s.small_fifo.len # s.small_fifo.cap
            THEN {s} ELSE {Fail(s, "assert_small_not_full")}
        absent(s) ==
            IF find(s, hash, k) = {} THEN {s} ELSE {Fail(s, "assert_absent")}
        insert(s) ==
            LET key_ptr == <<"small", back_slot(s.small_fifo)>>
            IN  Bind({small_push_back(s, <<k, hash>>)},
                     LAMBDA t : {insert_unique(t, Bucket(key_ptr, v, 0, hash))})
    IN  Bind(Bind(Bind(Bind(Bind(made_room, not_full), absent),
                       LAMBDA s : {assert_main_fifo(s)}),
                  insert),
             LAMBDA s : {assert_main_fifo(s)})

put(c, k, v) ==
    LET hit == get_mut(c, k)
        hash == Hash(k)
        Result(S) == {[c |-> s, ret |-> IF s.status = "ok" THEN None ELSE NoReturn]
                        : s \in S}
    IN  IF \E r \in hit : r.ret # None
        THEN {replace(c, b, v) : b \in find(c, hash, k)}
        ELSE IF ghost_contains(c.ghost_fifo, hash)
             THEN Result(put_main(c, k, v, hash))
             ELSE Result(put_small(c, k, v, hash))

(* ------------------------------ callers -------------------------------- *)

Op(name, k, v) == [op |-> name, k |-> k, v |-> v]

PutSeq(lo, hi) == [i \in 1..(hi - lo + 1) |-> Op("put", lo + i - 1, 1)]

\* spec.md S1: insert 1..=11 with no reads
ScriptS1 == PutSeq(1, 11)
\* spec.md S3: insert 1, read it three times, insert 2..=11
ScriptS3 == <<Op("put", 1, 1), Op("get", 1, 0), Op("get", 1, 0), Op("get", 1, 0)>>
            \o PutSeq(2, 11)
\* fills Ghost, then Main through ghost hits, then overflows Main
ScriptFill == PutSeq(1, 10) \o PutSeq(1, 9)
              \o <<Op("put", 11, 1), Op("put", 10, 1), Op("put", 1, 1)>>

\* spec.md S2: insert 1, insert 2, insert 1 again
ScriptS2 == <<Op("put", 1, 1), Op("put", 2, 1), Op("put", 1, 1)>>
\* two keys of one hash leave Small one after the other
ScriptCollide == <<Op("put", 1, 1), Op("put", HashMod + 1, 1), Op("put", 2, 1)>>
\* spec.md S5 at C = 10: Main filled through ghost hits, every entry read
\* three times, then a put that makes Main evict
RECURSIVE GetSeq(_, _)
GetSeq(lo, hi) ==
    IF lo > hi THEN <<>>
    ELSE <<Op("get", lo, 0), Op("get", lo, 0), Op("get", lo, 0)>>
         \o GetSeq(lo + 1, hi)
ScriptS5 == PutSeq(1, 10) \o PutSeq(1, 9) \o GetSeq(1, 9)
            \o <<Op("put", 11, 1), Op("put", 10, 1)>>

Scripts == <<ScriptS1, ScriptS3, ScriptFill, ScriptS2, ScriptCollide, ScriptS5>>
\* spec.md section 8: the scenarios run with C = 10
ScriptCaps == {10}
ScriptKeys == 1..11

\* script = 0 is the free caller; script = i > 0 follows Scripts[i], and may
\* add up to ExtraReads reads of its own
Scripted(o) == /\ script > 0
               /\ pos <= Len(Scripts[script])
               /\ Scripts[script][pos] = o

\* the cache as an operation finds it, its history empty
C == [small_fifo |-> small_fifo, main_fifo |-> main_fifo,
      ghost_fifo |-> ghost_fifo, table |-> table, status |-> status,
      log |-> <<>>]

Becomes(r, o) ==
    /\ small_fifo' = r.c.small_fifo
    /\ main_fifo' = r.c.main_fifo
    /\ ghost_fifo' = r.c.ghost_fifo
    /\ table' = r.c.table
    /\ status' = r.c.status
    /\ log' = r.c.log
    /\ ret' = r.ret
    /\ lastOp' = o
    /\ UNCHANGED <<cap, script>>

Init ==
    /\ script \in 0..Len(Scripts)
    /\ cap \in IF script = 0 THEN Caps ELSE ScriptCaps
    /\ small_fifo = with_hasher(cap).small_fifo
    /\ main_fifo = with_hasher(cap).main_fifo
    /\ ghost_fifo = with_hasher(cap).ghost_fifo
    /\ table = with_hasher(cap).table
    /\ status = with_hasher(cap).status
    /\ lastOp = Op("new", 0, 0)
    /\ ret = NoReturn
    /\ pos = 1
    /\ extra = 0
    /\ log = with_hasher(cap).log

\* a read the caller makes: free, scripted, or added to a script
Reads(name, k) ==
    \/ script = 0 /\ k \in FreeKeySet /\ UNCHANGED <<pos, extra>>
    \/ Scripted(Op(name, k, 0)) /\ pos' = pos + 1 /\ UNCHANGED extra
    \/ /\ script > 0 /\ k \in ScriptKeys /\ extra < ExtraReads
       /\ extra' = extra + 1 /\ UNCHANGED pos

Get(k) ==
    /\ status = "ok"
    /\ Reads("get", k)
    /\ \E r \in get(C, k) : Becomes(r, Op("get", k, 0))

GetMut(k) ==
    /\ status = "ok"
    /\ Reads("get_mut", k)
    /\ \E r \in get_mut(C, k) : Becomes(r, Op("get_mut", k, 0))

Put(k, v) ==
    /\ status = "ok"
    /\ \/ script = 0 /\ k \in FreeKeySet /\ UNCHANGED <<pos, extra>>
       \/ Scripted(Op("put", k, v)) /\ pos' = pos + 1 /\ UNCHANGED extra
    /\ \E r \in put(C, k, v) : Becomes(r, Op("put", k, v))

AllKeys == FreeKeySet \cup ScriptKeys

Next ==
    \/ \E k \in AllKeys : Get(k)
    \/ \E k \in AllKeys : GetMut(k)
    \/ \E k \in AllKeys, v \in Values : Put(k, v)

Spec == Init /\ [][Next]_vars

(* ---------------------------- type invariant --------------------------- *)

TypeOK ==
    /\ status \in {"ok", "assert_main_fifo", "assert_small_not_full",
                   "assert_absent", "unreachable_small", "unreachable_main",
                   "realloc"}
    /\ small_fifo.len \in 0..small_fifo.cap
    /\ main_fifo.len \in 0..main_fifo.cap

(* ------------------------- vocabulary of the claims -------------------- *)

S == cap \div 10
M == (9 * cap) \div 10
G == M

Keys(q) == {Elems(q)[i][1] : i \in 1..q.len}
Resident(k) == k \in Keys(small_fifo) \cup Keys(main_fifo)

\* what get(k) would return in the current state
GetRets(k) == {r.ret : r \in get(C, k)}
\* the counter(s) and value(s) the Index holds for k
FreqOf(k) == {b.freq : b \in find(C, Hash(k), k)}
ValueOf(k) == {b.value : b \in find(C, Hash(k), k)}

Returned == status = "ok"
Min(a, b) == IF a < b THEN a ELSE b

(* -------------------------------- claims ------------------------------- *)

\* C1: with capacity C >= 10, once put(k, v) has returned, a get(k) made
\* next returns Some(v): the put never evicts the key it has just stored.
C1_PutThenGet ==
    (Returned /\ cap >= 10 /\ lastOp.op = "put")
        => GetRets(lastOp.k) = {Some(lastOp.v)}

\* C1 witness: put(10) was admitted to a full Main on a ghost hit, evicting
\* Main's head, and returned.
C1_Witness ==
    /\ Returned /\ script = 3 /\ lastOp = Op("put", 10, 1) /\ ret = None
    /\ 10 \in Keys(main_fifo) /\ main_fifo.len = M /\ ~(1 \in Keys(main_fifo))

\* C2: put(k, v2) on a resident key with value v1 returns Some(v1), makes
\* get(k) return Some(v2) and changes no queue and not the number of
\* entries; put on a key that is not resident returns None.
C2_Replace ==
    [][\A k \in AllKeys, v2 \in Values :
         (Returned /\ Returned' /\ lastOp' = Op("put", k, v2))
         => IF Resident(k)
            THEN /\ \E v1 \in Values : ValueOf(k) = {v1} /\ ret' = Some(v1)
                 /\ GetRets(k)' = {Some(v2)}
                 /\ UNCHANGED <<small_fifo, main_fifo, ghost_fifo>>
                 /\ BagCardinality(table') = BagCardinality(table)
            ELSE ret' = None]_vars

\* C2 witness: a put has replaced the value 1 of a resident key by 2.
C2_Witness ==
    /\ Returned /\ lastOp.op = "put" /\ lastOp.v = 2 /\ ret = Some(1)
    /\ Resident(lastOp.k)

\* a put of k has just returned and k was resident before it
PutOnResident(k) ==
    /\ Returned /\ Returned' /\ Resident(k)
    /\ \E v \in Values : lastOp' = Op("put", k, v)

\* C3 as claimed: put on a resident key leaves its counter unchanged.
C3_FreqUnchanged ==
    [][\A k \in AllKeys : PutOnResident(k) => FreqOf(k)' = FreqOf(k)]_vars

\* C3 as amended: put on a resident key counts as a hit, exactly as get_mut
\* does: a counter f becomes (f + 1) mod 4.
C3_PutCountsAsHit ==
    [][\A k \in AllKeys :
         PutOnResident(k)
         => \E f \in 0..3 : FreqOf(k) = {f} /\ FreqOf(k)' = {(f + 1) % 4}]_vars

\* C3 witness: a put has replaced the value of a resident key whose counter
\* is now 2.
C3_Witness ==
    /\ Returned /\ lastOp.op = "put" /\ ret # None /\ FreqOf(lastOp.k) = {2}

\* a get or get_mut of k has just hit
ReadHit(k) ==
    /\ Returned /\ Returned' /\ ret' # None
    /\ lastOp' \in {Op("get", k, 0), Op("get_mut", k, 0)}

\* C4: a hit by get or get_mut leaves the counter at min(3, f + 1).
C4_SaturatingHit ==
    [][\A k \in AllKeys :
         ReadHit(k)
         => \E f \in 0..3 : FreqOf(k) = {f} /\ FreqOf(k)' = {Min(3, f + 1)}]_vars

\* C5: |Small| <= S, |Main| <= M and |Ghost| <= G in every state.
C5_QueueBounds ==
    /\ small_fifo.len <= S
    /\ main_fifo.len <= M
    /\ Len(ghost_fifo.ring_buffer) <= G

\* C5 witness: all three queues are full after a put that had to evict.
C5_Witness ==
    /\ Returned /\ lastOp.op = "put" /\ M > 0
    /\ small_fifo.len = S /\ main_fifo.len = M
    /\ Len(ghost_fifo.ring_buffer) = G

\* the physical slots a queue's entries occupy
Slots(q) == {(q.head + i) % q.cap : i \in 0..(q.len - 1)}

\* every entry of the queue is found through the Index, by exactly one
\* bucket, and that bucket's handle is the slot the entry is in
Resolves(name, q) ==
    \A slot \in Slots(q) :
        \E b \in BagToSet(table) :
            /\ find(C, q.buf[slot][2], q.buf[slot][1]) = {b}
            /\ CopiesIn(b, table) = 1
            /\ b.key_ptr = <<name, slot>>

\* C6: looking up the key of any entry of Small or Main finds exactly that
\* entry, whenever an operation has ended (returned or stopped at a failed
\* assertion): no handle refers to a slot that holds a different key.
C6_IndexResolves ==
    Resolves("small", small_fifo) /\ Resolves("main", main_fifo)

\* the keys the Index holds, read through its handles
IndexKeys == {deref(C, b.key_ptr) : b \in BagToSet(table)}

\* C7: the Index has one bucket per entry of Small and Main, no key is in
\* both queues or twice in one (in every state), and after every operation
\* that returned the keys the Index holds are exactly those of Small and Main.
C7_IndexIsQueues ==
    /\ BagCardinality(table) = small_fifo.len + main_fifo.len
    /\ Keys(small_fifo) \cap Keys(main_fifo) = {}
    /\ Cardinality(Keys(small_fifo)) = small_fifo.len
    /\ Cardinality(Keys(main_fifo)) = main_fifo.len
    /\ Returned =>
          /\ IndexKeys = Keys(small_fifo) \cup Keys(main_fifo)
          /\ Cardinality(IndexKeys) = BagCardinality(table)

\* C7 witness: entries in Small and in Main, Main having evicted.
C7_Witness ==
    /\ Returned /\ small_fifo.len > 0 /\ main_fifo.len > 1 /\ main_fifo.head > 0

\* C8: with capacity C < 10 every put is legal (no failed assertion) and
\* leaves |Small| <= S; with C = 0 nothing is stored and every get misses.
C8_SmallCapacityPutLegal ==
    cap < 10 =>
        /\ Returned
        /\ small_fifo.len <= S
        /\ cap = 0 => (table = EmptyBag /\ \A k \in AllKeys : GetRets(k) = {None})

\* the caller has run the whole of Scripts[i], adding no read of its own
Ran(i) == script = i /\ extra = 0 /\ pos = Len(Scripts[i]) + 1

\* C9 as claimed: after the puts of 1..11 Small holds key 11, Main is
\* empty, Ghost holds the hashes of all of 1..10 and get(1) is absent.
C9_S1GhostHoldsTen ==
    Ran(1) =>
        /\ Returned
        /\ Keys(small_fifo) = {11} /\ main_fifo.len = 0
        /\ ghost_fifo.table = {Hash(k) : k \in 1..10}
        /\ GetRets(1) = {None}

\* C9 as amended: after the puts of 1..11 Small holds key 11, Main is
\* empty, get(1) is absent and Ghost, whose capacity is G = 9, holds the
\* hashes of the nine keys 2..10 in that order, the hash of 1 having left.
C9_S1FinalState ==
    Ran(1) =>
        /\ Returned
        /\ Keys(small_fifo) = {11} /\ main_fifo.len = 0
        /\ ghost_fifo.ring_buffer = [i \in 1..9 |-> Hash(i + 1)]
        /\ ghost_fifo.table = {Hash(k) : k \in 2..10}
        /\ GetRets(1) = {None}

\* C9 witness: the eleven puts have run.
C9_Witness == Ran(1) /\ Returned /\ lastOp = Op("put", 11, 1)

\* C10: put(1), three get(1), then put of 2..11: every put completes, key 1
\* is in Main with counter 2 after the first eviction pass, and at the end
\* get(1) returns the value stored.
C10_HotKeySurvives ==
    (script = 2 /\ extra = 0) =>
        /\ Returned
        /\ pos > 5 => (1 \in Keys(main_fifo) /\ GetRets(1) = {Some(1)})
        /\ pos = 6 => FreqOf(1) = {2}

\* the capacities the capacity arithmetic is checked for
MaxCap == 64

\* C11: for every capacity C the queues are built with S = C div 10 and
\* M = 9C div 10 slots, S + M <= C and C - (S + M) <= 1; and in every state
\* the resident entries, |Small| + |Main|, are at most C.
C11_CapacityMath ==
    /\ \A n \in 0..MaxCap :
          LET c == with_hasher(n)
              s == c.small_fifo.cap
              m == c.main_fifo.cap
          IN  /\ s = n \div 10 /\ m = (9 * n) \div 10
              /\ s + m <= n
              /\ n - (s + m) <= 1
    /\ small_fifo.cap = S /\ main_fifo.cap = M
    /\ small_fifo.len + main_fifo.len <= cap

\* C11 witness: both queues full, the cache holds C entries.
C11_Witness ==
    /\ Returned /\ cap >= 10
    /\ small_fifo.len = S /\ main_fifo.len = M
    /\ small_fifo.len + main_fifo.len = cap

\* the entry at a queue's tail
Back(q) == Elems(q)[q.len]

\* a put of a key that is not resident, once it has returned, has created
\* the entry with counter 0, at Main's tail with Small unchanged if the
\* key's hash was in Ghost at the time of the put, at Small's tail otherwise
Routing ==
    \A k \in AllKeys, v \in Values :
       (/\ lastOp' = Op("put", k, v)
        /\ ~Resident(k)
        /\ Returned')
       => /\ FreqOf(k)' = {0}
          /\ IF Hash(k) \in ghost_fifo.table
             THEN /\ main_fifo'.len > 0 /\ Back(main_fifo') = <<k, Hash(k)>>
                  /\ Elems(small_fifo') = Elems(small_fifo)
                  /\ k \notin Keys(small_fifo')
             ELSE /\ small_fifo'.len > 0 /\ Back(small_fifo') = <<k, Hash(k)>>
                  /\ k \notin Keys(main_fifo')

\* after put(1); put(2); put(1) with C = 10 key 1 is in Main, key 2 in Small
S2FinalState ==
    Ran(4) => /\ Returned
              /\ Keys(main_fifo) = {1} /\ Keys(small_fifo) = {2}

\* C12: a put of a key that is not resident creates the entry with counter
\* 0 and places it at Main's tail, leaving Small unchanged, if and only if
\* the key's hash is in Ghost at the time of the put; otherwise it places it
\* at Small's tail.  With C = 10, put(1); put(2); put(1) ends with
\* Main = {1} and Small = {2}.
C12_AdmissionRouting == [][Routing]_vars /\ []S2FinalState

\* C12 witness: the scenario has run, its last put admitted key 1 to Main
\* because Ghost held its hash.
C12_Witness ==
    /\ Ran(4) /\ Returned /\ lastOp = Op("put", 1, 1) /\ ret = None
    /\ main_fifo.len > 0 /\ Back(main_fifo) = <<1, Hash(1)>>
    /\ Hash(1) \in ghost_fifo.table

(* ------------------------ the evictors' history ------------------------ *)

\* positions of the last operation's history that hold such an event
At(name, out) == {i \in DOMAIN log : log[i].ev = name /\ log[i].out = out}
Pops(name) == {i \in DOMAIN log : log[i].ev = name /\ log[i].out # "call"}
\* the last operation ran evict_small on a non-empty Small, and it returned
SmallRunReturned ==
    /\ At("evict_small", "end") # {}
    /\ \A i \in At("evict_small", "begin") : log[i].f > 0

MainRun(i, j) ==
    /\ i \in At("evict_main", "begin") /\ j \in At("evict_main", "end")
    /\ i < j
    /\ \A m \in At("evict_main", "end") : m > i => j <= m
\* the head pops of that run
MainPops(i, j) == {p \in Pops("main") : i < p /\ p < j}

\* each run of evict_main on a non-empty Main removes exactly one entry
\* after at most 4 * |Main| head pops, and a run of evict_small makes at
\* most 4 * |Small| head pops
EvictionPopBounds ==
    /\ \A i \in At("evict_main", "begin") :
          log[i].f > 0 =>
             \E j \in DOMAIN log :
                /\ MainRun(i, j)
                /\ Cardinality(MainPops(i, j)) <= 4 * log[i].f
                /\ Cardinality({p \in MainPops(i, j) : log[p].out = "drop"}) = 1
                /\ log[j].f = log[i].f - 1
    /\ \A i \in At("evict_small", "begin") :
          Cardinality(Pops("small")) <= 4 * log[i].f

\* C14: with C >= 10 every put returns, each run of evict_main on a
\* non-empty Main removes exactly one entry after at most 4 * |Main| head
\* pops, and each run of evict_small makes at most 4 * |Small| head pops.
C14_EvictionTerminates ==
    cap >= 10 =>
        /\ lastOp.op = "put" => Returned
        /\ EvictionPopBounds

\* the run of evict_main from position i to position j of the history, over
\* the Main q0 it began with: the p-th pop takes the entry p - 1 places
\* (cyclically) behind q0's head, finds its counter lowered by one for each
\* lap made, recycles it if the counter is above 1 and drops it otherwise;
\* the run stops at the first drop, after at most 3 laps if every counter
\* was 3; Main is then the entries behind the dropped one followed by the
\* entries before it, each in the Index with its counter lowered by one
\* for each visit
Recycles(i, j) ==
    LET q0 == log[i].q
        n == Len(q0)
        P == j - i - 1
        v == ((P - 1) % n) + 1
        laps == (P - 1) \div n
    IN  /\ P >= 1
        /\ \A p \in 1..P :
              LET e == q0[((p - 1) % n) + 1]
                  pop == log[i + p]
              IN  /\ pop.ev = "main" /\ pop.k = e[1]
                  /\ e[2] = {pop.f + ((p - 1) \div n)}
                  /\ pop.out = IF pop.f > 1 THEN "recycle" ELSE "drop"
                  /\ (pop.out = "drop") <=> (p = P)
        /\ log[j].q =
              [m \in 1..(n - 1) |->
                 LET src == ((v + m - 1) % n) + 1
                     visits == laps + (IF src < v THEN 1 ELSE 0)
                 IN  <<q0[src][1], {f - visits : f \in q0[src][2]}>>]
        /\ (\A m \in 1..n : q0[m][2] = {3}) => P <= 3 * n

\* the keys of Main after the run are those it began with, in the same
\* order, less the dropped one
SameOrder(i, j) ==
    LET q0 == log[i].q
        n == Len(q0)
        v == ((j - i - 2) % n) + 1
    IN  [m \in 1..Len(log[j].q) |-> log[j].q[m][1]]
        = [m \in 1..(n - 1) |-> q0[IF m < v THEN m ELSE m + 1][1]]

\* C15 as claimed: a run of evict_main visits Main head to tail,
\* cyclically, lowers each visited counter by 1, recycles to the tail what
\* stays positive and stops at and removes the first entry whose lowered
\* counter is 0, within 3 laps if every counter was 3; and the survivors
\* keep their relative order.
C15_OrderPreserved ==
    \A i, j \in DOMAIN log :
        (MainRun(i, j) /\ log[i].f > 0) => (Recycles(i, j) /\ SameOrder(i, j))

\* C15 as amended: the same, but the survivors keep their cyclic order
\* only: Main after the run is the entries that were behind the removed
\* one followed by the entries that were before it.
C15_MainRecycling ==
    \A i, j \in DOMAIN log :
        (MainRun(i, j) /\ log[i].f > 0) => Recycles(i, j)

\* a run of evict_main over a full Main whose entries all had counter 3
\* has ended
HotMainRun ==
    \E i, j \in DOMAIN log :
        /\ MainRun(i, j) /\ log[i].f = M
        /\ \A m \in 1..M : log[i].q[m][2] = {3}

\* C15 witness: put(10) of scenario S5 has returned, evict_main having
\* made two laps over a Main of counters 3 and dropped its head on the third.
C15_Witness ==
    /\ HotMainRun /\ Returned /\ script = 6
    /\ Cardinality(At("main", "recycle")) = 2 * M
    /\ Cardinality(At("main", "drop")) = 1

\* C16 as claimed: an entry whose counter is nonzero when it reaches
\* Small's head is promoted to Main by evict_small; only entries whose
\* counter is 0 there are dropped and have their hash inserted into Ghost.
C16_NonzeroPromoted ==
    \A i \in Pops("small") :
        /\ log[i].f > 0 => log[i].out = "promote"
        /\ log[i].out = "drop" => log[i].f = 0

\* C16 as amended: evict_small promotes the head of Small to Main's tail
\* exactly when its counter there is 2 or 3 (still positive once
\* decremented); a head whose counter is 0 or 1 is dropped from the cache
\* and its hash inserted into Ghost.
C16_PromotedAboveOne ==
    \A i \in Pops("small") :
        /\ log[i].out = (IF log[i].f >= 2 THEN "promote" ELSE "drop")
        /\ log[i].out = "drop" =>
              /\ log[i + 1] = Ev("ghost_insert", Hash(log[i].k), 0, "call")
              /\ Hash(log[i].k) \in ghost_fifo.table
              /\ ~Resident(log[i].k)
        /\ (log[i].out = "promote" /\ At("evict_small", "end") # {}) =>
              /\ log[i].k \in Keys(main_fifo)
              /\ \A j \in At("evict_small", "end") :
                    \A m \in DOMAIN log[j].q : log[j].q[m][1] # log[i].k

\* C16 witness: put has returned after evict_small dropped a head of Small
\* that had been read once (counter 1) and put its hash into Ghost.
C16_Witness ==
    /\ Returned /\ lastOp.op = "put"
    /\ \E i \in At("small", "drop") :
          log[i].f = 1 /\ Hash(log[i].k) \in ghost_fifo.table

\* the step called GhostFIFOCache::insert(h): with h in Ghost nothing
\* changed; with h new and |Ghost| = G the head left and h is the tail;
\* with h new and |Ghost| < G h was appended
GhostInserted ==
    \A h \in 1..HashMod :
       (\E i \in DOMAIN log' : log'[i] = Ev("ghost_insert", h, 0, "call"))
       => LET ring == ghost_fifo.ring_buffer
          IN  IF h \in ghost_fifo.table
              THEN ghost_fifo' = ghost_fifo
              ELSE IF Len(ring) = G
              THEN /\ ghost_fifo'.ring_buffer = Append(Tail(ring), h)
                   /\ ghost_fifo'.table = (ghost_fifo.table \ {Head(ring)}) \cup {h}
              ELSE /\ ghost_fifo'.ring_buffer = Append(ring, h)
                   /\ ghost_fifo'.table = ghost_fifo.table \cup {h}

\* Ghost holds no fingerprint twice, and contains(h) is true exactly for
\* the fingerprints in the FIFO
GhostIsSet ==
    LET ring == ghost_fifo.ring_buffer
    IN  /\ \A i, j \in DOMAIN ring : ring[i] = ring[j] => i = j
        /\ \A h \in 1..(HashMod + 1) :
              ghost_contains(ghost_fifo, h) <=> (\E i \in DOMAIN ring : ring[i] = h)

\* C17: inserting a hash already in Ghost changes nothing; inserting a new
\* hash when |Ghost| = G removes exactly the head and appends the new hash
\* at the tail; inserting a new hash when |Ghost| < G only appends.  Ghost
\* never holds a fingerprint twice and contains(h) is true exactly for the
\* fingerprints in the FIFO.
C17_GhostInsertion == [][GhostInserted]_vars /\ []GhostIsSet

\* C17 witness: two keys of one hash were dropped from Small one after the
\* other; the second insert of the hash left Ghost with one fingerprint.
C17_Witness ==
    /\ Ran(5) /\ Returned
    /\ \E i \in DOMAIN log :
          log[i] = Ev("ghost_insert", Hash(HashMod + 1), 0, "call")
    /\ ghost_fifo.ring_buffer = <<Hash(1)>>

\* Ghost was full when a new hash was inserted: the oldest left
GhostFullInsert ==
    /\ Ran(1) /\ Returned
    /\ Len(ghost_fifo.ring_buffer) = G /\ ghost_fifo.ring_buffer[G] = Hash(10)

\* a step of get(k) or get_mut(k) leaves Small, Main and Ghost as they
\* were; on a miss it returns None and leaves the Index as it was; on a hit
\* it returns the entry's value and changes the counter of that one bucket
\* and nothing else of the Index
ReadFrame ==
    \A k \in AllKeys, name \in {"get", "get_mut"} :
       lastOp' = Op(name, k, 0) =>
          /\ small_fifo' = small_fifo /\ main_fifo' = main_fifo
          /\ ghost_fifo' = ghost_fifo
          /\ Returned'
          /\ IF ~Resident(k)
             THEN table' = table /\ ret' = None
             ELSE \E b \in find(C, Hash(k), k) :
                    /\ ret' = Some(b.value)
                    /\ \E f \in 0..3 :
                          table' = (table (-) SetToBag({b}))
                                   (+) SetToBag({[b EXCEPT !.freq = f]})

\* C18: get and get_mut never reorder or resize a queue: on a miss the
\* whole cache is unchanged and absent is returned; on a hit the only
\* change is the counter of the entry that was hit; Small, Main, Ghost,
\* the values and the other entries' counters are unchanged.
C18_ReadFrame == [][ReadFrame]_vars

\* C18 witness: get_mut has hit an entry of a full Main while Small and
\* Ghost hold entries too.
C18_Witness ==
    /\ Returned /\ lastOp.op = "get_mut" /\ ret # None
    /\ lastOp.k \in Keys(main_fifo) /\ main_fifo.len = M
    /\ small_fifo.len > 0 /\ ghost_fifo.table # {}

\* a read has missed in a cache that holds entries
ReadMissed ==
    /\ Returned /\ lastOp.op = "get" /\ ret = None
    /\ table # EmptyBag /\ ghost_fifo.table # {}

\* C19: after every operation every entry's counter is in {0, 1, 2, 3}; an
\* entry is created with counter 0, a hit never takes the counter above 3
\* and an evictor pass never takes it below 0.
C19_FreqRange ==
    /\ \A b \in BagToSet(table) : b.freq \in 0..3
    /\ \A i \in DOMAIN log : log[i].f >= 0
    /\ \A i \in Pops("main") \cup Pops("small") : log[i].f <= 3
    /\ (Returned /\ lastOp.op = "put" /\ ret = None) => FreqOf(lastOp.k) = {0}

\* C19 witness: after a hit one entry's counter is 3 while another entry,
\* admitted and never read, has counter 0.
C19_Witness ==
    /\ Returned /\ lastOp.op = "get" /\ FreqOf(lastOp.k) = {3}
    /\ \E b \in BagToSet(table) : b.freq = 0
    /\ main_fifo.len = M

\* the hashes of the entries the last operation dropped cold from Small
ColdDropped == {Hash(log[i].k) : i \in At("small", "drop")}

\* a step changes Ghost only if evict_small dropped a cold entry in it, and
\* adds no other hash than that entry's; a read, a put on a resident key,
\* the admission of a key whose hash is in Ghost and a run of evict_main
\* leave Ghost as it was, so the admitted key's hash is still in Ghost
GhostFrame ==
    /\ ghost_fifo' # ghost_fifo => ColdDropped' # {}
    /\ ghost_fifo'.table \ ghost_fifo.table \subseteq ColdDropped'
    /\ \A k \in AllKeys :
          /\ lastOp' \in {Op("get", k, 0), Op("get_mut", k, 0)}
                => ghost_fifo' = ghost_fifo
          /\ \A v \in Values :
                (lastOp' = Op("put", k, v)
                 /\ (Resident(k) \/ Hash(k) \in ghost_fifo.table))
                => /\ ghost_fifo' = ghost_fifo
                   /\ (Returned' /\ ~Resident(k))
                        => /\ k \in Keys(main_fifo')
                           /\ Hash(k) \in ghost_fifo'.table
    /\ (At("evict_main", "end")' # {} /\ ColdDropped' = {})
          => ghost_fifo' = ghost_fifo

\* C20: Ghost is changed only by the cold drop of evict_small; get,
\* get_mut, the replace path of put, the admission of a key into Main on a
\* ghost hit and every run of evict_main leave it unchanged: the hash of a
\* key admitted on a ghost hit stays in Ghost, and the hash of an entry
\* evicted from Main is not added to Ghost.
C20_GhostFrame == [][GhostFrame]_vars

\* C20 witness: put(10) was admitted to a full Main on a ghost hit: key 10
\* is in Main and its hash still in Ghost, and the entry evict_main dropped
\* to make room is not remembered in Ghost.
C20_Witness ==
    /\ Returned /\ lastOp = Op("put", 10, 1)
    /\ 10 \in Keys(main_fifo) /\ Hash(10) \in ghost_fifo.table
    /\ \E i \in At("main", "drop") : Hash(log[i].k) \notin ghost_fifo.table

====
